---- MODULE Spec2Model ----
(***************************************************************************)
(* Model of 418dataBas.py: load_and_clean_data followed by                 *)
(* create_interactive_map, as the straight-line pipeline the __main__      *)
(* block runs.  A table is a sequence of rows; a row is a function from    *)
(* column names to cells; a cell is <<>> (NaN / NaT / None) or <<v>>.      *)
(* Coordinates are kept in tenths of a degree (41.6 is 416).               *)
(***************************************************************************)
EXTENDS Integers, Sequences, FiniteSets, TLC

VARIABLES raw, df, pedestrian, mask, fmt, severity_clusters, cursor, pc

vars == <<raw, df, pedestrian, mask, fmt, severity_clusters, cursor, pc>>

\* Largest number of rows of a generated input table.
MaxRows == 2

----------------------------------------------------------------------------
(* Cells *)

Null == <<>>

V(x) == <<x>>

IsNa(cell) == cell = Null

NotNull(cell) == cell # Null

Val(cell) == cell[1]

\* row with column c set to cell (a column assignment, seen from one row)
With(row, c, cell) ==
  [k \in DOMAIN row \cup {c} |-> IF k = c THEN cell ELSE row[k]]

\* table[c] = cells, cells holding one cell for each row
Assign(table, c, cells) ==
  [k \in 1..Len(table) |-> With(table[k], c, cells[k])]

----------------------------------------------------------------------------
(* load_and_clean_data *)

LatLo == 416

LatHi == 421

LonLo == -880

LonHi == -875

\* fault: the interval taken as open, 41.6 < x < 42.1
BetweenExclusive(cell, lo, hi) == cell # <<>> /\ lo < cell[1] /\ cell[1] < hi

\* fault: the lower limit dropped, x <= 42.1
BetweenUpperOnly(cell, lo, hi) == cell # <<>> /\ cell[1] <= hi

\* Series.between(left, right), inclusive on both sides; NaN compares False
Between(cell, lo, hi) == NotNull(cell) /\ lo <= Val(cell) /\ Val(cell) <= hi

\* Series.isin([0, None])
IsInZeroNone(cell) == IsNa(cell) \/ Val(cell) = 0

DropNa(table) ==
  SelectSeq(table, LAMBDA r : NotNull(r["LATITUDE"]) /\ NotNull(r["LONGITUDE"]))

RangeFilter(table) ==
  SelectSeq(table, LAMBDA r : Between(r["LATITUDE"], LatLo, LatHi)
                              /\ Between(r["LONGITUDE"], LonLo, LonHi))

ZeroNoneFilter(table) ==
  SelectSeq(table, LAMBDA r : ~IsInZeroNone(r["LATITUDE"])
                              /\ ~IsInZeroNone(r["LONGITUDE"]))

load_and_clean_data(table) == ZeroNoneFilter(RangeFilter(DropNa(table)))

----------------------------------------------------------------------------
(* Date strings and strptime.  A date string is the sequence of its        *)
(* tokens: numbers and the literal text between them.                      *)

N(n) == [k |-> "num", v |-> n, s |-> ""]

L(t) == [k |-> "lit", v |-> 0, s |-> t]

datetime_formats == <<
  <<"%Y", "-", "%m", "-", "%d", " ", "%H", ":", "%M", ":", "%S">>,
  <<"%m", "/", "%d", "/", "%Y", " ", "%I", ":", "%M", ":", "%S", " ", "%p">>,
  <<"%Y", "-", "%m", "-", "%d">>,
  <<"%m", "/", "%d", "/", "%Y", " ", "%H", ":", "%M">> >>

IsLeap(y) == (y % 4 = 0 /\ y % 100 # 0) \/ y % 400 = 0

DaysInMonth(y, m) ==
  IF m = 2 THEN (IF IsLeap(y) THEN 29 ELSE 28)
  ELSE IF m \in {4, 6, 9, 11} THEN 30 ELSE 31

\* one directive (or literal) of a format against one token
TokenMatches(d, tok) ==
  CASE d = "%Y" -> tok.k = "num" /\ tok.v \in 1..9999
    [] d = "%m" -> tok.k = "num" /\ tok.v \in 1..12
    [] d = "%d" -> tok.k = "num" /\ tok.v \in 1..31
    [] d = "%H" -> tok.k = "num" /\ tok.v \in 0..23
    [] d = "%I" -> tok.k = "num" /\ tok.v \in 1..12
    [] d = "%M" -> tok.k = "num" /\ tok.v \in 0..59
    [] d = "%S" -> tok.k = "num" /\ tok.v \in 0..59
    [] d = "%p" -> tok.k = "lit" /\ tok.s \in {"AM", "PM"}
    [] OTHER    -> tok.k = "lit" /\ tok.s = d

\* the number the string gives for directive d, or dflt when f has no d
Field(str, f, d, dflt) ==
  IF \E j \in 1..Len(f) : f[j] = d
  THEN str[CHOOSE j \in 1..Len(f) : f[j] = d].v
  ELSE dflt

\* hour of day from %H, or from %I and %p (12 AM is 0, 12 PM is 12)
HourOf(str, f) ==
  IF \E j \in 1..Len(f) : f[j] = "%I"
  THEN (Field(str, f, "%I", 0) % 12)
       + (IF str[CHOOSE j \in 1..Len(f) : f[j] = "%p"].s = "PM" THEN 12 ELSE 0)
  ELSE Field(str, f, "%H", 0)

\* pd.to_datetime(cell, format=f, errors='coerce') for one cell
to_datetime(cell, f) ==
  IF IsNa(cell) THEN Null
  ELSE LET str == Val(cell) IN
       IF Len(str) # Len(f) THEN Null
       ELSE IF \E j \in 1..Len(f) : ~TokenMatches(f[j], str[j]) THEN Null
       ELSE LET y == Field(str, f, "%Y", 1900)
                m == Field(str, f, "%m", 1)
                d == Field(str, f, "%d", 1)
            IN IF d > DaysInMonth(y, m) THEN Null
               ELSE V([year |-> y, month |-> m, day |-> d,
                       hour |-> HourOf(str, f),
                       minute |-> Field(str, f, "%M", 0),
                       second |-> Field(str, f, "%S", 0)])

\* fault: every row attempted in every pass
AllRowsMask(table) == 1..Len(table)

\* mask = pedestrian['CRASH_DATETIME'].isna()
IsNaMask(table) == {k \in 1..Len(table) : IsNa(table[k]["CRASH_DATETIME"])}

\* pedestrian.loc[mask, 'CRASH_DATETIME'] = to_datetime(pedestrian.loc[mask, 'CRASH_DATE'], f)
ParsePass(table, msk, f) ==
  [k \in 1..Len(table) |->
     IF k \in msk
     THEN With(table[k], "CRASH_DATETIME", to_datetime(table[k]["CRASH_DATE"], f))
     ELSE table[k]]

----------------------------------------------------------------------------
(* Derived columns *)

choices == <<"Fatal", "Severe", "Injury", "Property Damage">>

\* the condition list of line 42-47 for one row; comparisons with NaN are False
conditions(row) == <<
  row["MOST_SEVERE_INJURY"] = V("FATAL"),
  row["MOST_SEVERE_INJURY"] = V("INCAPACITATING INJURY"),
  NotNull(row["INJURIES_TOTAL"]) /\ Val(row["INJURIES_TOTAL"]) > 0,
  row["DAMAGE"] = V("OVER $1,500") >>

\* fault: the last true condition wins
np_select_last(condlist, choicelist, default) ==
  IF \E j \in 1..Len(condlist) : condlist[j]
  THEN choicelist[CHOOSE j \in 1..Len(condlist) :
                    condlist[j] /\ \A h \in (j + 1)..Len(condlist) : ~condlist[h]]
  ELSE default

\* np.select(condlist, choicelist, default) for one row
np_select(condlist, choicelist, default) ==
  IF \E j \in 1..Len(condlist) : condlist[j]
  THEN choicelist[CHOOSE j \in 1..Len(condlist) :
                    condlist[j] /\ \A h \in 1..(j - 1) : ~condlist[h]]
  ELSE default

SeverityTier(row) == V(np_select(conditions(row), choices, "Minor"))

DayNames ==
  <<"Sunday", "Monday", "Tuesday", "Wednesday", "Thursday", "Friday", "Saturday">>

MonthOffset == <<0, 3, 2, 5, 0, 3, 5, 1, 4, 6, 2, 4>>

\* Series.dt.day_name() for one cell
day_name(cell) ==
  IF IsNa(cell) THEN Null
  ELSE LET t == Val(cell)
           y == IF t.month < 3 THEN t.year - 1 ELSE t.year
       IN V(DayNames[((y + (y \div 4) - (y \div 100) + (y \div 400)
                       + MonthOffset[t.month] + t.day) % 7) + 1])

\* Series.dt.hour for one cell
hour(cell) == IF IsNa(cell) THEN Null ELSE V(Val(cell).hour)

bins == <<0, 6, 12, 18, 24>>

labels == <<"Night (12am-6am)", "Morning (6am-12pm)",
            "Afternoon (12pm-6pm)", "Evening (6pm-12am)">>

\* pd.cut(x, bins, labels): the default right=True, include_lowest=False
\* makes the intervals (0,6], (6,12], (12,18], (18,24]
cut(cell, b, lab) ==
  IF IsNa(cell) THEN Null
  ELSE IF \E j \in 1..Len(lab) : b[j] < Val(cell) /\ Val(cell) <= b[j + 1]
       THEN V(lab[CHOOSE j \in 1..Len(lab) : b[j] < Val(cell) /\ Val(cell) <= b[j + 1]])
       ELSE Null

\* fault: the np.where around pd.cut left out
TimeOfDayCutOnly(row) == cut(row["HOUR"], bins, labels)

\* np.where(HOUR.isna(), 'Unknown', pd.cut(...)) for one row
TimeOfDay(row) ==
  IF IsNa(row["HOUR"]) THEN V("Unknown") ELSE cut(row["HOUR"], bins, labels)

NumericColumns == {"INJURIES_TOTAL", "STREET_NO", "POSTED_SPEED_LIMIT"}

\* read_csv gives a numeric column with a missing value the dtype float64
IsFloatColumn(c) == \E k \in 1..Len(raw) : c \in DOMAIN raw[k] /\ IsNa(raw[k][c])

\* str(x) of the value of a cell of column c
str(c, cell) ==
  IF IsNa(cell) THEN "nan"
  ELSE IF c \in NumericColumns
       THEN ToString(Val(cell)) \o (IF IsFloatColumn(c) THEN ".0" ELSE "")
       ELSE Val(cell)

\* Series + Series on strings: NaN on either side gives NaN
StrAdd(a, b) == IF IsNa(a) \/ IsNa(b) THEN Null ELSE V(Val(a) \o Val(b))

FullAddress(row) ==
  StrAdd(StrAdd(StrAdd(StrAdd(V(str("STREET_NO", row["STREET_NO"])), V(" ")),
                       row["STREET_DIRECTION"]), V(" ")),
         row["STREET_NAME"])

----------------------------------------------------------------------------
(* Markers *)

Tiers == {"Fatal", "Severe", "Injury", "Property Damage", "Minor"}

severity_style ==
  [t \in Tiers |->
     CASE t = "Fatal"           -> [color |-> "#d62728", size |-> 8]
       [] t = "Severe"          -> [color |-> "#ff7f0e", size |-> 6]
       [] t = "Injury"          -> [color |-> "#1f77b4", size |-> 5]
       [] t = "Property Damage" -> [color |-> "#2ca02c", size |-> 4]
       [] t = "Minor"           -> [color |-> "#7f7f7f", size |-> 3]]

Pad2(n) == IF n < 10 THEN "0" \o ToString(n) ELSE ToString(n)

Pad4(n) ==
  IF n < 10 THEN "000" \o ToString(n)
  ELSE IF n < 100 THEN "00" \o ToString(n)
  ELSE IF n < 1000 THEN "0" \o ToString(n) ELSE ToString(n)

\* Timestamp.strftime('%Y-%m-%d')
strftime(t) == Pad4(t.year) \o "-" \o Pad2(t.month) \o "-" \o Pad2(t.day)

date_str(row) ==
  IF NotNull(row["CRASH_DATETIME"]) THEN strftime(Val(row["CRASH_DATETIME"])) ELSE "N/A"

day_str(row) ==
  IF NotNull(row["DAY_OF_WEEK"]) THEN Val(row["DAY_OF_WEEK"]) ELSE "Unknown"

time_str(row) ==
  IF NotNull(row["TIME_OF_DAY"]) THEN Val(row["TIME_OF_DAY"]) ELSE "Unknown"

\* fault: row[c] read with no default, a missing column read as NaN
GetNoDefault(row, c, default) == IF c \in DOMAIN row THEN str(c, row[c]) ELSE "nan"

\* f"{row.get(c, default)}"
Get(row, c, default) == IF c \in DOMAIN row THEN str(c, row[c]) ELSE default

popup_html(row) ==
  [severity |-> Val(row["SEVERITY_TIER"]),
   date     |-> date_str(row),
   time     |-> time_str(row),
   day      |-> day_str(row),
   injuries |-> Get(row, "INJURIES_TOTAL", "0"),
   speed    |-> Get(row, "POSTED_SPEED_LIMIT", "N/A"),
   weather  |-> Get(row, "WEATHER_CONDITION", "N/A"),
   address  |-> Get(row, "FULL_ADDRESS", "N/A")]

CircleMarker(row) ==
  [location |-> <<Val(row["LATITUDE"]), Val(row["LONGITUDE"])>>,
   radius   |-> severity_style[Val(row["SEVERITY_TIER"])].size,
   color    |-> severity_style[Val(row["SEVERITY_TIER"])].color,
   popup    |-> popup_html(row),
   tooltip  |-> Val(row["SEVERITY_TIER"]) \o " accident at " \o time_str(row)]

\* fault: every marker added to the default tier's group
ClusterOfDefault(row) == "Minor"

\* fault: the crash type compared without regard to case
IsPedestrianAnyCase(row) ==
  row["FIRST_CRASH_TYPE"] \in {<<"PEDESTRIAN">>, <<"Pedestrian">>, <<"pedestrian">>}

\* the cluster group a row's marker is added to
ClusterOf(row) == Val(row["SEVERITY_TIER"])

IsPedestrian(row) == row["FIRST_CRASH_TYPE"] = V("PEDESTRIAN")

----------------------------------------------------------------------------
(* Input tables *)

IsoDateTime(y, m, d, H, M, S) ==
  <<N(y), L("-"), N(m), L("-"), N(d), L(" "), N(H), L(":"), N(M), L(":"), N(S)>>

UsAmPm(m, d, y, I, M, S, p) ==
  <<N(m), L("/"), N(d), L("/"), N(y), L(" "), N(I), L(":"), N(M), L(":"), N(S),
    L(" "), L(p)>>

IsoDate(y, m, d) == <<N(y), L("-"), N(m), L("-"), N(d)>>

UsHourMinute(m, d, y, H, M) ==
  <<N(m), L("/"), N(d), L("/"), N(y), L(" "), N(H), L(":"), N(M)>>

BoundaryHours == {0, 5, 6, 12, 18, 23}

DateCells ==
  {V(IsoDateTime(2024, 3, 5, h, 30, 0)) : h \in BoundaryHours}
  \cup {V(UsAmPm(3, 31, 2025, 12, 15, 0, "AM")), V(UsAmPm(3, 31, 2025, 12, 15, 0, "PM")),
        V(UsAmPm(3, 31, 2025, 6, 0, 0, "PM")), V(UsAmPm(3, 31, 2025, 13, 0, 0, "PM")),
        V(IsoDate(2024, 2, 29)), V(IsoDate(2023, 2, 29)),
        V(UsHourMinute(12, 25, 2023, 18, 45)), V(UsHourMinute(12, 25, 2023, 24, 0)),
        V(<<L("unknown")>>), Null}

DefaultRow ==
  [LATITUDE |-> V(419), LONGITUDE |-> V(-876),
   FIRST_CRASH_TYPE |-> V("PEDESTRIAN"),
   CRASH_DATE |-> V(UsAmPm(3, 31, 2025, 2, 30, 0, "PM")),
   MOST_SEVERE_INJURY |-> V("NO INDICATION OF INJURY"),
   INJURIES_TOTAL |-> V(0), DAMAGE |-> V("$500 OR LESS"),
   STREET_NO |-> V(100), STREET_DIRECTION |-> V("N"), STREET_NAME |-> V("MAIN ST"),
   POSTED_SPEED_LIMIT |-> V(30), WEATHER_CONDITION |-> V("CLEAR")]

Latitudes == {Null, V(0), V(415), V(416), V(421), V(422)}

Longitudes == {Null, V(0), V(-881), V(-880), V(-875), V(-874)}

CoordinateRows ==
  {[DefaultRow EXCEPT !["LATITUDE"] = a] : a \in Latitudes}
  \cup {[DefaultRow EXCEPT !["LONGITUDE"] = o] : o \in Longitudes}
  \cup {[DefaultRow EXCEPT !["LATITUDE"] = V(0), !["LONGITUDE"] = V(0)],
        [DefaultRow EXCEPT !["LATITUDE"] = Null, !["LONGITUDE"] = Null],
        [DefaultRow EXCEPT !["FIRST_CRASH_TYPE"] = V("Pedestrian")],
        [DefaultRow EXCEPT !["FIRST_CRASH_TYPE"] = V("REAR END")],
        [DefaultRow EXCEPT !["FIRST_CRASH_TYPE"] = Null]}

SeverityRows ==
  {[DefaultRow EXCEPT !["MOST_SEVERE_INJURY"] = s, !["INJURIES_TOTAL"] = n,
                      !["DAMAGE"] = g] :
     s \in {V("FATAL"), V("INCAPACITATING INJURY"), V("NO INDICATION OF INJURY"), Null},
     n \in {Null, V(0), V(2)},
     g \in {V("OVER $1,500"), V("$500 OR LESS")}}

DateRows == {[DefaultRow EXCEPT !["CRASH_DATE"] = c] : c \in DateCells}

AddressRows ==
  {[DefaultRow EXCEPT !["STREET_NO"] = n, !["STREET_DIRECTION"] = d,
                      !["STREET_NAME"] = s] :
     n \in {Null, V(100)}, d \in {Null, V("N")}, s \in {Null, V("MAIN ST")}}

PopupRows ==
  {[DefaultRow EXCEPT !["POSTED_SPEED_LIMIT"] = p, !["WEATHER_CONDITION"] = w,
                      !["CRASH_DATE"] = c] :
     p \in {Null, V(30)}, w \in {Null, V("CLEAR")}, c \in {Null, V(IsoDate(2024, 2, 29))}}

OptionalColumns == {"POSTED_SPEED_LIMIT", "WEATHER_CONDITION"}

\* the row of a file that lacks the columns in drop
Without(row, drop) == [c \in DOMAIN row \ drop |-> row[c]]

TablesOf(rows) == UNION {[1..n -> rows] : n \in 0..MaxRows}

\* the three rows of the end-to-end scenario, the fields it leaves open varied
ScenarioTables ==
  {<<[DefaultRow EXCEPT !["LATITUDE"] = V(419), !["LONGITUDE"] = V(-876),
                        !["FIRST_CRASH_TYPE"] = V("PEDESTRIAN"),
                        !["MOST_SEVERE_INJURY"] = V("FATAL"),
                        !["INJURIES_TOTAL"] = n, !["DAMAGE"] = g],
     [DefaultRow EXCEPT !["LATITUDE"] = V(0), !["LONGITUDE"] = V(0),
                        !["FIRST_CRASH_TYPE"] = V("PEDESTRIAN")],
     [DefaultRow EXCEPT !["LATITUDE"] = V(417), !["LONGITUDE"] = V(-877),
                        !["FIRST_CRASH_TYPE"] = V("VEHICLE")]>> :
     n \in {Null, V(0), V(2)}, g \in {V("OVER $1,500"), V("$500 OR LESS")}}

InputTables ==
  TablesOf(CoordinateRows) \cup TablesOf(SeverityRows) \cup TablesOf(DateRows)
  \cup TablesOf(AddressRows)
  \cup {[k \in 1..Len(t) |-> Without(t[k], drop)] :
          t \in TablesOf(PopupRows), drop \in SUBSET OptionalColumns}
  \cup ScenarioTables

----------------------------------------------------------------------------
(* The pipeline *)

Init ==
  /\ raw \in InputTables
  /\ df = <<>>
  /\ pedestrian = <<>>
  /\ mask = {}
  /\ fmt = 1
  /\ severity_clusters = [t \in Tiers |-> <<>>]
  /\ cursor = 1
  /\ pc = "read_csv"

\* line 8-9
ReadCsv ==
  /\ pc = "read_csv"
  /\ df' = raw
  /\ pc' = "dropna"
  /\ UNCHANGED <<raw, pedestrian, mask, fmt, severity_clusters, cursor>>

\* line 12
DropNaStep ==
  /\ pc = "dropna"
  /\ df' = DropNa(df)
  /\ pc' = "between"
  /\ UNCHANGED <<raw, pedestrian, mask, fmt, severity_clusters, cursor>>

\* line 13-16
RangeFilterStep ==
  /\ pc = "between"
  /\ df' = RangeFilter(df)
  /\ pc' = "isin"
  /\ UNCHANGED <<raw, pedestrian, mask, fmt, severity_clusters, cursor>>

\* line 17
ZeroNoneFilterStep ==
  /\ pc = "isin"
  /\ df' = ZeroNoneFilter(df)
  /\ pc' = "filter"
  /\ UNCHANGED <<raw, pedestrian, mask, fmt, severity_clusters, cursor>>

\* line 22 and line 32
FilterPedestrian ==
  /\ pc = "filter"
  /\ LET filtered == SelectSeq(df, IsPedestrian)
     IN pedestrian' = Assign(filtered, "CRASH_DATETIME", [k \in 1..Len(filtered) |-> Null])
  /\ fmt' = 1
  /\ pc' = "parse"
  /\ UNCHANGED <<raw, df, mask, severity_clusters, cursor>>

\* one iteration of the loop of line 33-39
ParseStep ==
  /\ pc = "parse"
  /\ fmt <= Len(datetime_formats)
  /\ mask' = IsNaMask(pedestrian)
  /\ pedestrian' = ParsePass(pedestrian, IsNaMask(pedestrian), datetime_formats[fmt])
  /\ fmt' = fmt + 1
  /\ pc' = IF fmt = Len(datetime_formats) THEN "severity" ELSE "parse"
  /\ UNCHANGED <<raw, df, severity_clusters, cursor>>

\* line 42-49
SeverityStep ==
  /\ pc = "severity"
  /\ pedestrian' = Assign(pedestrian, "SEVERITY_TIER",
                          [k \in 1..Len(pedestrian) |-> SeverityTier(pedestrian[k])])
  /\ pc' = "time"
  /\ UNCHANGED <<raw, df, mask, fmt, severity_clusters, cursor>>

\* line 52-63
TimeStep ==
  /\ pc = "time"
  /\ LET rows == 1..Len(pedestrian)
         withDay == Assign(pedestrian, "DAY_OF_WEEK",
                           [k \in rows |-> day_name(pedestrian[k]["CRASH_DATETIME"])])
         withHour == Assign(withDay, "HOUR",
                            [k \in rows |-> hour(withDay[k]["CRASH_DATETIME"])])
     IN pedestrian' = Assign(withHour, "TIME_OF_DAY",
                             [k \in rows |-> TimeOfDay(withHour[k])])
  /\ pc' = "address"
  /\ UNCHANGED <<raw, df, mask, fmt, severity_clusters, cursor>>

\* line 66-70
AddressStep ==
  /\ pc = "address"
  /\ pedestrian' = Assign(pedestrian, "FULL_ADDRESS",
                          [k \in 1..Len(pedestrian) |-> FullAddress(pedestrian[k])])
  /\ cursor' = 1
  /\ pc' = "markers"
  /\ UNCHANGED <<raw, df, mask, fmt, severity_clusters>>

\* one iteration of the loop of line 106-130
AddMarker ==
  /\ pc = "markers"
  /\ cursor <= Len(pedestrian)
  /\ severity_clusters' =
       [severity_clusters EXCEPT ![ClusterOf(pedestrian[cursor])] =
          Append(@, CircleMarker(pedestrian[cursor]))]
  /\ cursor' = cursor + 1
  /\ UNCHANGED <<raw, df, pedestrian, mask, fmt, pc>>

\* line 133-207, the loop of line 106 being over
Save ==
  /\ pc = "markers"
  /\ cursor > Len(pedestrian)
  /\ pc' = "done"
  /\ UNCHANGED <<raw, df, pedestrian, mask, fmt, severity_clusters, cursor>>

Next ==
  \/ ReadCsv
  \/ DropNaStep
  \/ RangeFilterStep
  \/ ZeroNoneFilterStep
  \/ FilterPedestrian
  \/ ParseStep
  \/ SeverityStep
  \/ TimeStep
  \/ AddressStep
  \/ AddMarker
  \/ Save

Spec == Init /\ [][Next]_vars

----------------------------------------------------------------------------
(* Stages of the pipeline *)

AfterClean == pc \notin {"read_csv", "dropna", "between", "isin"}

AfterParse == pc \in {"severity", "time", "address", "markers", "done"}

AfterSeverity == pc \in {"time", "address", "markers", "done"}

AfterTime == pc \in {"address", "markers", "done"}

AfterAddress == pc \in {"markers", "done"}

Rendered == {k \in 1..Len(pedestrian) : pc \in {"markers", "done"} /\ k < cursor}

\* the marker the loop built for row k: the n-th child of its tier's group,
\* n counting the rows up to k of that tier
MarkerOf(k) ==
  LET t == pedestrian[k]["SEVERITY_TIER"][1]
      n == Cardinality({j \in 1..k : pedestrian[j]["SEVERITY_TIER"][1] = t})
  IN severity_clusters[t][n]

NoFormatMatches(cell) ==
  \A j \in 1..Len(datetime_formats) : to_datetime(cell, datetime_formats[j]) = <<>>

----------------------------------------------------------------------------
(* Cleaning *)

KeptCoordinates(r) ==
  /\ r["LATITUDE"] # <<>> /\ r["LATITUDE"][1] # 0
  /\ 416 <= r["LATITUDE"][1] /\ r["LATITUDE"][1] <= 421
  /\ r["LONGITUDE"] # <<>> /\ r["LONGITUDE"][1] # 0
  /\ -880 <= r["LONGITUDE"][1] /\ r["LONGITUDE"][1] <= -875

\* C1: the rows load_and_clean_data returns are exactly the input rows whose
\* latitude is non-null, non-zero and in [41.6, 42.1] and whose longitude is
\* non-null, non-zero and in [-88.0, -87.5], in their input order: none out of
\* range is kept and none in range is dropped.
C1_CleanedRows == AfterClean => df = SelectSeq(raw, KeptCoordinates)

\* a table cleaned with a row on the limit 41.6 kept and another row dropped
C1_Witness ==
  /\ pc = "filter"
  /\ 1 <= Len(df) /\ Len(df) < Len(raw)
  /\ \E k \in 1..Len(df) : df[k]["LATITUDE"] = <<416>>

\* C10: the exclusion of zero and null coordinates of line 17 removes nothing
\* that the null-drop and the range filter left, and cleaning a cleaned table
\* again changes nothing.
C10_ZeroFilterNoOp ==
  /\ [][pc = "isin" => df' = df]_vars
  /\ [](AfterClean => load_and_clean_data(df) = df)

\* a table holding a zero or null coordinate has gone through line 17 and
\* rows remain
C10_Witness ==
  /\ pc = "filter"
  /\ Len(df) >= 1
  /\ \E k \in 1..Len(raw) :
       raw[k]["LATITUDE"] \in {<<>>, <<0>>} \/ raw[k]["LONGITUDE"] \in {<<>>, <<0>>}

----------------------------------------------------------------------------
(* Severity *)

ClaimedTier(r) ==
  IF r["MOST_SEVERE_INJURY"] = <<"FATAL">> THEN "Fatal"
  ELSE IF r["MOST_SEVERE_INJURY"] = <<"INCAPACITATING INJURY">> THEN "Severe"
  ELSE IF r["INJURIES_TOTAL"] # <<>> /\ r["INJURIES_TOTAL"][1] > 0 THEN "Injury"
  ELSE IF r["DAMAGE"] = <<"OVER $1,500">> THEN "Property Damage"
  ELSE "Minor"

\* C3: every pedestrian row gets exactly one of the five labels, the one of the
\* first predicate that holds in the order fatal, incapacitating, injuries > 0,
\* damage over $1,500, and Minor when none holds.
C3_SeverityFirstMatch ==
  AfterSeverity =>
    \A k \in 1..Len(pedestrian) :
      /\ pedestrian[k]["SEVERITY_TIER"] # <<>>
      /\ pedestrian[k]["SEVERITY_TIER"][1]
           \in {"Fatal", "Severe", "Injury", "Property Damage", "Minor"}
      /\ pedestrian[k]["SEVERITY_TIER"][1] = ClaimedTier(pedestrian[k])

\* a row on which three predicates hold is Fatal, and a row with a null injury
\* count falls through to Property Damage
C3_Witness ==
  /\ AfterSeverity
  /\ \E k \in 1..Len(pedestrian) :
       /\ pedestrian[k]["MOST_SEVERE_INJURY"] = <<"FATAL">>
       /\ pedestrian[k]["INJURIES_TOTAL"] = <<2>>
       /\ pedestrian[k]["DAMAGE"] = <<"OVER $1,500">>
       /\ pedestrian[k]["SEVERITY_TIER"] = <<"Fatal">>
  /\ \E k \in 1..Len(pedestrian) :
       /\ pedestrian[k]["INJURIES_TOTAL"] = <<>>
       /\ pedestrian[k]["SEVERITY_TIER"] = <<"Property Damage">>

----------------------------------------------------------------------------
(* Datetime parsing *)

FirstMatch(cell) ==
  LET M == {j \in 1..Len(datetime_formats) :
              to_datetime(cell, datetime_formats[j]) # <<>>}
  IN IF M = {} THEN <<>>
     ELSE to_datetime(cell, datetime_formats[CHOOSE j \in M : \A h \in M : j <= h])

\* C4: a row whose CRASH_DATETIME is set is in the mask of no later pass and
\* keeps its value; after the loop each row holds the parse by the first format
\* that matches its CRASH_DATE, and null only if none matches.
C4_FillOrder ==
  /\ [][\A k \in 1..Len(pedestrian) :
          pedestrian[k]["CRASH_DATETIME"] # <<>> =>
            /\ pedestrian'[k]["CRASH_DATETIME"] = pedestrian[k]["CRASH_DATETIME"]
            /\ (pc = "parse" => k \notin mask')]_vars
  /\ [](AfterParse =>
          \A k \in 1..Len(pedestrian) :
            pedestrian[k]["CRASH_DATETIME"] = FirstMatch(pedestrian[k]["CRASH_DATE"]))

\* the loop is over with a row that format 2 filled (format 1 did not match) and
\* a row no format matched
C4_Witness ==
  /\ pc = "severity"
  /\ \E k \in 1..Len(pedestrian) :
       /\ to_datetime(pedestrian[k]["CRASH_DATE"], datetime_formats[1]) = <<>>
       /\ to_datetime(pedestrian[k]["CRASH_DATE"], datetime_formats[2]) # <<>>
       /\ pedestrian[k]["CRASH_DATETIME"] # <<>>
       /\ k \notin mask
  /\ \E k \in 1..Len(pedestrian) : pedestrian[k]["CRASH_DATETIME"] = <<>>

\* C9: a pedestrian row whose CRASH_DATE no format matches keeps a null
\* CRASH_DATETIME, gets a null DAY_OF_WEEK and HOUR and the TIME_OF_DAY
\* "Unknown", and is rendered with the date "N/A" and the time and day
\* "Unknown"; a row whose date parses gets a DAY_OF_WEEK and an HOUR.
C9_UnparsedDate ==
  /\ AfterTime =>
       \A k \in 1..Len(pedestrian) :
         IF NoFormatMatches(pedestrian[k]["CRASH_DATE"])
         THEN /\ pedestrian[k]["CRASH_DATETIME"] = <<>>
              /\ pedestrian[k]["DAY_OF_WEEK"] = <<>>
              /\ pedestrian[k]["HOUR"] = <<>>
              /\ pedestrian[k]["TIME_OF_DAY"] = <<"Unknown">>
         ELSE /\ pedestrian[k]["DAY_OF_WEEK"] # <<>>
              /\ pedestrian[k]["HOUR"] # <<>>
  /\ pc = "done" => Rendered = 1..Len(pedestrian)
  /\ \A k \in Rendered :
       NoFormatMatches(pedestrian[k]["CRASH_DATE"]) =>
         /\ MarkerOf(k).popup.date = "N/A"
         /\ MarkerOf(k).popup.time = "Unknown"
         /\ MarkerOf(k).popup.day = "Unknown"

\* the map is finished with a marker for a row whose date is not a date and a
\* marker for a row whose date parsed
C9_Witness ==
  /\ pc = "done"
  /\ \E k \in Rendered :
       /\ pedestrian[k]["CRASH_DATE"] # <<>>
       /\ NoFormatMatches(pedestrian[k]["CRASH_DATE"])
       /\ MarkerOf(k).popup.date = "N/A"
  /\ \E k \in Rendered :
       /\ pedestrian[k]["HOUR"] # <<>>
       /\ MarkerOf(k).popup.date # "N/A"

\* C2: the TIME_OF_DAY of hour h is Night for 0..5, Morning for 6..11,
\* Afternoon for 12..17, Evening for 18..23, and "Unknown" exactly when the
\* hour is null.
C2_LeftInclusiveBuckets ==
  AfterTime =>
    \A k \in 1..Len(pedestrian) :
      LET h == pedestrian[k]["HOUR"] IN
        pedestrian[k]["TIME_OF_DAY"] =
          IF h = <<>> THEN <<"Unknown">>
          ELSE IF h[1] \in 0..5 THEN <<"Night (12am-6am)">>
          ELSE IF h[1] \in 6..11 THEN <<"Morning (6am-12pm)">>
          ELSE IF h[1] \in 12..17 THEN <<"Afternoon (12pm-6pm)">>
          ELSE <<"Evening (6pm-12am)">>

----------------------------------------------------------------------------
(* Popup *)

Absent(r, c) == c \notin DOMAIN r \/ r[c] = <<>>

\* C5 as stated: every field of the popup of a rendered row shows "N/A" when
\* the row has no value for it.
C5_EveryFieldFallsBackToNA ==
  \A k \in Rendered :
    LET r == pedestrian[k]
        p == MarkerOf(k).popup
    IN /\ r["CRASH_DATETIME"] = <<>> => p.date = "N/A"
       /\ r["HOUR"] = <<>> => p.time = "N/A"
       /\ r["DAY_OF_WEEK"] = <<>> => p.day = "N/A"
       /\ Absent(r, "INJURIES_TOTAL") => p.injuries = "N/A"
       /\ Absent(r, "POSTED_SPEED_LIMIT") => p.speed = "N/A"
       /\ Absent(r, "WEATHER_CONDITION") => p.weather = "N/A"
       /\ Absent(r, "FULL_ADDRESS") => p.address = "N/A"

\* C5 as amended: the date shows "N/A" when the datetime is null; the time and
\* the day show "Unknown" when the hour and the day of week are null; the speed
\* limit and the weather show "N/A" when the table has no such column; a null
\* injury count, speed limit, weather or address of a column the table has
\* shows as "nan"; and every row gets its marker whichever optional column is
\* missing.
C5_PopupFallbacks ==
  /\ pc = "done" => Rendered = 1..Len(pedestrian)
  /\ \A k \in Rendered :
       LET r == pedestrian[k]
           p == MarkerOf(k).popup
       IN /\ r["CRASH_DATETIME"] = <<>> => p.date = "N/A"
          /\ r["HOUR"] = <<>> => p.time = "Unknown"
          /\ r["DAY_OF_WEEK"] = <<>> => p.day = "Unknown"
          /\ \A c \in {"POSTED_SPEED_LIMIT", "WEATHER_CONDITION"} :
               LET shown == IF c = "POSTED_SPEED_LIMIT" THEN p.speed ELSE p.weather
               IN /\ c \notin DOMAIN r => shown = "N/A"
                  /\ (c \in DOMAIN r /\ r[c] = <<>>) => shown = "nan"
          /\ r["INJURIES_TOTAL"] = <<>> => p.injuries = "nan"
          /\ r["FULL_ADDRESS"] = <<>> => p.address = "nan"

\* the map is finished with a marker for a row of a table without the speed
\* limit column whose date is null, and its popup shows "N/A" for both
C5_Witness ==
  /\ pc = "done"
  /\ \E k \in Rendered :
       /\ "POSTED_SPEED_LIMIT" \notin DOMAIN pedestrian[k]
       /\ pedestrian[k]["CRASH_DATETIME"] = <<>>
       /\ MarkerOf(k).popup.speed = "N/A"
       /\ MarkerOf(k).popup.date = "N/A"
       /\ MarkerOf(k).popup.time = "Unknown"

----------------------------------------------------------------------------
(* Address *)

\* C8: FULL_ADDRESS is street number, direction and name joined by single
\* spaces, a missing component alone replaced by its null string.
C8_AddressComponents ==
  AfterAddress =>
    \A k \in 1..Len(pedestrian) :
      LET r == pedestrian[k] IN
        r["FULL_ADDRESS"] =
          <<str("STREET_NO", r["STREET_NO"]) \o " "
            \o str("STREET_DIRECTION", r["STREET_DIRECTION"]) \o " "
            \o str("STREET_NAME", r["STREET_NAME"])>>

----------------------------------------------------------------------------
(* Markers *)

ClaimedStyle(t) ==
  CASE t = "Fatal"           -> <<"#d62728", 8>>
    [] t = "Severe"          -> <<"#ff7f0e", 6>>
    [] t = "Injury"          -> <<"#1f77b4", 5>>
    [] t = "Property Damage" -> <<"#2ca02c", 4>>
    [] t = "Minor"           -> <<"#7f7f7f", 3>>

\* the rows of the cleaned table that are to be in the group of tier t
RowsOfTier(t) ==
  SelectSeq(df, LAMBDA r : r["FIRST_CRASH_TYPE"] = <<"PEDESTRIAN">> /\ ClaimedTier(r) = t)

\* C6: when the map is finished the children of the group of each tier are, one
\* for one and in order, the markers of the cleaned rows whose type is exactly
\* PEDESTRIAN and whose tier it is, each at its row's coordinates with the color
\* and radius of the tier; no other row has a marker.
C6_OneMarkerPerPedestrianRow ==
  pc = "done" =>
    \A t \in {"Fatal", "Severe", "Injury", "Property Damage", "Minor"} :
      LET rows == RowsOfTier(t)
          children == severity_clusters[t]
      IN [k \in 1..Len(children) |->
            <<children[k].location, children[k].color, children[k].radius>>]
         = [k \in 1..Len(rows) |->
              <<<<rows[k]["LATITUDE"][1], rows[k]["LONGITUDE"][1]>>,
                ClaimedStyle(t)[1], ClaimedStyle(t)[2]>>]

\* the map is finished for a cleaned table holding a pedestrian row and a row
\* of another type, with one marker
C6_Witness ==
  /\ pc = "done"
  /\ Len(df) = 2
  /\ \E k \in 1..Len(df) : df[k]["FIRST_CRASH_TYPE"] = <<"Pedestrian">>
  /\ Len(pedestrian) = 1
  /\ Len(severity_clusters["Minor"]) = 1

\* C7: on the three rows of the scenario cleaning keeps rows 1 and 3, the
\* pedestrian filter keeps row 1, and the finished map has one marker, in the
\* Fatal group, colored #d62728.
C7_EndToEnd ==
  raw \in ScenarioTables =>
    /\ AfterClean => df = <<raw[1], raw[3]>>
    /\ AfterParse =>
         /\ Len(pedestrian) = 1
         /\ \A c \in DOMAIN raw[1] : pedestrian[1][c] = raw[1][c]
    /\ pc = "done" =>
         /\ Len(severity_clusters["Fatal"]) = 1
         /\ severity_clusters["Fatal"][1].color = "#d62728"
         /\ severity_clusters["Fatal"][1].location = <<419, -876>>
         /\ \A t \in {"Severe", "Injury", "Property Damage", "Minor"} :
              severity_clusters[t] = <<>>

\* the scenario has run to the end, its fatal row also counting injuries
C7_Witness ==
  /\ raw \in ScenarioTables
  /\ pc = "done"
  /\ raw[1]["INJURIES_TOTAL"] = <<2>>
  /\ Len(df) = 2
  /\ Len(severity_clusters["Fatal"]) = 1

====
